---- MODULE Spec2Model ----
(***************************************************************************)
(* LabFace attendance backend: the session routes (start / stop /          *)
(* force-absent), the presence-event route, the face check-in route and    *)
(* the socket.io broadcasts, over the MySQL tables sessions, attendance    *)
(* and presence_events.                                                    *)
(*                                                                         *)
(* Every request handler is an async function; each `await` of a database  *)
(* or collaborator call is a point where other handlers run.  One action   *)
(* of the model is one awaited call taking effect together with the        *)
(* synchronous code that follows it up to the next await (or up to the     *)
(* response).  A request is taken when its first awaited query runs.       *)
(***************************************************************************)
EXTENDS Integers, Sequences, FiniteSets, Bags, TLC

\* ---------------------------------------------------------------- bounds
MaxRequests == 3       \* requests taken in one run

\* ------------------------------------------------------ program constants
lateThresholdMinutes == 30   \* parseInt(process.env.LATE_THRESHOLD_MINUTES || '30')
MsPerMinute == 60000         \* (1000 * 60)

\* ------------------------------------------------ tables owned by others
Professors == {"p1", "p2"}
Students == {"s1", "s2"}
Users == Professors \cup Students

\* classes(class_id, professor_id): class 1 belongs to p1.
Classes == {1}
ClassProfessor(c) == "p1"

\* class_students(class_id, student_id)
Enrolled(c) == {"s1", "s2"}

UserType(u) == IF u \in Professors THEN "professor" ELSE "student"

\* A nullable column: <<>> is NULL, <<v>> holds v.
Null == <<>>
Some(v) == <<v>>

\* The handler slots: as many requests are in flight at once.
Slots == {1, 2}

\* Browsers with the live-session page.
Observers == {"o1"}

\* The instants the clock is read at: the start, the late threshold later,
\* and a millisecond after that.
Times == {0, lateThresholdMinutes * MsPerMinute,
          lateThresholdMinutes * MsPerMinute + 1}

VARIABLES
  sessions,         \* table sessions, row i has session_id = i
  attendance,       \* table attendance, row i has attendance_id = i
  presence_events,  \* table presence_events, row i has event_id = i
  published,        \* messages emitted by io.to(room).emit, in order
  procs,            \* bag of the handlers in flight: position and locals
  response,         \* the HTTP response sent by the step just taken, if any
  now,              \* wall clock, milliseconds
  nreq,             \* requests taken so far
  socket,           \* per observer: state of socketService.socket
  page,             \* per observer: session of the open live page, 0 if none
  rooms,            \* per observer: rooms the server holds its socket in
  subscribed        \* per observer: sessions it has joined and not left

vars == <<sessions, attendance, presence_events, published, procs, response,
          now, nreq, socket, page, rooms, subscribed>>

\* The variables of the realtime channel's observers.
obsVars == <<socket, page, rooms, subscribed>>

\* ------------------------------------------------------------- handlers
\* A handler before its first await.
Handler == [pc |-> "new", cid |-> 0, sid |-> 0, stu |-> "", etype |-> "",
            start_ts |-> 0, ts |-> 0, status |-> "", url |-> Null,
            eid |-> Null, absent |-> {}, uid |-> ""]

NoResponse == [op |-> "none", code |-> 0, error |-> ""]

Respond(op, code) == [op |-> op, code |-> code, error |-> ""]

\* return res.status(code).json({ error })
Reject(op, code, error) == [op |-> op, code |-> code, error |-> error]

InFlight == BagToSet(procs)

\* A request is taken while a slot is free.
FreeSlot ==
  /\ BagCardinality(procs) < Cardinality(Slots)
  /\ nreq < MaxRequests

\* The handler h is suspended at its first await / moves on as g / returns.
Spawn(h) == procs (+) SetToBag({h})
Move(h, g) == (procs (-) SetToBag({h})) (+) SetToBag({g})
Finish(h) == procs (-) SetToBag({h})

\* ----------------------------------------------------------- middleware
\* authenticateToken: 0 lets the request through.
authenticateToken(tok) ==
  IF tok = "none" THEN 401
  ELSE IF tok = "bad" THEN 403
  ELSE 0

\* The error text authenticateToken answers with.
authenticateError(tok) ==
  IF tok = "none" THEN "Access token required"
  ELSE IF tok = "bad" THEN "Invalid or expired token"
  ELSE ""

requireProfessor(tok) ==
  IF UserType(tok) # "professor" THEN 403 ELSE 0

Tokens == {"none", "bad"} \cup Users

\* The status the two middlewares answer with, 0 when both pass.
ProfessorGate(tok) ==
  IF authenticateToken(tok) # 0 THEN authenticateToken(tok)
  ELSE requireProfessor(tok)

ProfessorGateError(tok) ==
  IF authenticateToken(tok) # 0 THEN authenticateError(tok)
  ELSE IF requireProfessor(tok) # 0 THEN "Professor access required"
  ELSE ""

\* ------------------------------------------------------------ broadcasts
\* The room name as it would be if it did not include the session id.
Room_Shared(sid) == 0

\* `attendance:${sessionId}`
Room(sid) == sid

\* io.to(room): the sockets that are in the room when the message is emitted.
Members(room) ==
  {o \in Observers : socket[o] = "connected" /\ room \in rooms[o]}

broadcastSessionStatus(pub, sid, status) ==
  Append(pub, [room |-> Room(sid), event |-> "session-status",
               status |-> status, student_id |-> "", event_type |-> "",
               event_id |-> Null, to |-> Members(Room(sid))])

broadcastPresenceEvent(pub, sid, student, etype, eid) ==
  Append(pub, [room |-> Room(sid), event |-> "presence-event",
               status |-> "", student_id |-> student, event_type |-> etype,
               event_id |-> eid, to |-> Members(Room(sid))])

\* --------------------------------------------------------- sessions table
\* The lookup as it would run without status: 'open' in its where clause.
OpenSessions_AnyStatus(ss, c) ==
  {i \in DOMAIN ss : ss[i].class_id = c}

OpenSessions(ss, c) ==
  {i \in DOMAIN ss : ss[i].class_id = c /\ ss[i].status = "open"}

\* db('sessions').where({class_id, status: 'open'}).first()
FirstOpenSession(ss, c) ==
  CHOOSE i \in OpenSessions(ss, c) : \A j \in OpenSessions(ss, c) : i <= j

Init ==
  /\ sessions = <<>>
  /\ attendance = <<>>
  /\ presence_events = <<>>
  /\ published = <<>>
  /\ procs = EmptyBag
  /\ response = NoResponse
  /\ now = 0
  /\ nreq = 0
  /\ socket = [o \in Observers |-> "none"]
  /\ page = [o \in Observers |-> 0]
  /\ rooms = [o \in Observers |-> {}]
  /\ subscribed = [o \in Observers |-> {}]

\* Time passes.
Tick ==
  /\ \E t \in Times : t > now /\ now' = t
  /\ response' = NoResponse
  /\ UNCHANGED obsVars
  /\ UNCHANGED <<sessions, attendance, presence_events, published, procs, nreq>>

\* ------------------------------------------- POST /classes/:id/start
\* Middleware, then the class lookup scoped to the calling professor, then
\* the query for an open session of the class (classes is not written by
\* these routes, so the two reads are taken together).  When it returns
\* nothing the row to insert is built (start_ts: new Date()).
StartActiveLookup(c, tok) ==
  /\ FreeSlot
  /\ nreq' = nreq + 1
  /\ IF ProfessorGate(tok) # 0
     THEN /\ response' = Reject("start", ProfessorGate(tok),
                             ProfessorGateError(tok))
          /\ UNCHANGED procs
     ELSE IF ~(c \in Classes /\ ClassProfessor(c) = tok)
     THEN /\ response' = Reject("start", 404, "Class not found")
          /\ UNCHANGED procs
     ELSE IF OpenSessions(sessions, c) # {}
     THEN /\ response' = Reject("start", 400,
                             "Session already active for this class")
          /\ UNCHANGED procs
     ELSE /\ procs' = Spawn([Handler EXCEPT !.pc = "st_insert", !.uid = tok,
                                      !.cid = c,
                                      !.ts = now])
          /\ response' = NoResponse
  /\ UNCHANGED obsVars
  /\ UNCHANGED <<sessions, attendance, presence_events, published, now>>

\* The insert as it would run if it reused a closed session row of the class.
InsertSession_Reopens(ss, c, start) ==
  IF \E i \in DOMAIN ss : ss[i].class_id = c /\ ss[i].status = "closed"
  THEN LET i == CHOOSE j \in DOMAIN ss :
                  ss[j].class_id = c /\ ss[j].status = "closed"
       IN [ss EXCEPT ![i].status = "open", ![i].start_ts = Some(start),
                     ![i].end_ts = Null]
  ELSE Append(ss, [class_id |-> c, start_ts |-> Some(start), end_ts |-> Null,
                   status |-> "open"])

\* db('sessions').insert(...): the table has no unique key on (class, open).
InsertSession(ss, c, start) ==
  Append(ss, [class_id |-> c, start_ts |-> Some(start), end_ts |-> Null,
              status |-> "open"])

StartInsert(h) ==
  /\ h.pc = "st_insert"
  /\ sessions' = InsertSession(sessions, h.cid, h.ts)
  /\ published' = broadcastSessionStatus(published, Len(sessions'), "started")
  /\ response' = Respond("start", 201)
  /\ procs' = Finish(h)
  /\ UNCHANGED obsVars
  /\ UNCHANGED <<attendance, presence_events, now, nreq>>

\* -------------------------------------------- POST /classes/:id/stop
StopActiveLookup(c, tok) ==
  /\ FreeSlot
  /\ nreq' = nreq + 1
  /\ IF ProfessorGate(tok) # 0
     THEN /\ response' = Reject("stop", ProfessorGate(tok),
                             ProfessorGateError(tok))
          /\ UNCHANGED procs
     ELSE IF OpenSessions(sessions, c) = {}
     THEN /\ response' = Reject("stop", 400, "No active session found")
          /\ UNCHANGED procs
     ELSE /\ procs' = Spawn([Handler EXCEPT !.pc = "sp_update", !.uid = tok,
                                      !.cid = c,
                                      !.sid = FirstOpenSession(sessions, c),
                                      !.ts = now])
          /\ response' = NoResponse
  /\ UNCHANGED obsVars
  /\ UNCHANGED <<sessions, attendance, presence_events, published, now>>

\* The update as it would run with where({class_id, status: 'open'}).
CloseSession_WholeClass(ss, sid, end) ==
  [i \in DOMAIN ss |->
     IF ss[i].class_id = ss[sid].class_id /\ ss[i].status = "open"
     THEN [ss[i] EXCEPT !.end_ts = Some(end), !.status = "closed"]
     ELSE ss[i]]

\* db('sessions').where({session_id}).update({end_ts, status: 'closed'})
CloseSession(ss, sid, end) ==
  [ss EXCEPT ![sid].end_ts = Some(end), ![sid].status = "closed"]

StopUpdate(h) ==
  /\ h.pc = "sp_update"
  /\ sessions' = CloseSession(sessions, h.sid, h.ts)
  /\ published' = broadcastSessionStatus(published, h.sid, "stopped")
  /\ response' = Respond("stop", 200)
  /\ procs' = Finish(h)
  /\ UNCHANGED obsVars
  /\ UNCHANGED <<attendance, presence_events, now, nreq>>

\* ------------------------------------------------------ attendance table
RowsOf(att, sid, stu) ==
  {i \in DOMAIN att : att[i].session_id = sid /\ att[i].student_id = stu}

AttendanceRow(sid, stu, status, checkin, url) ==
  [session_id |-> sid, student_id |-> stu, status |-> status,
   checkin_ts |-> Some(checkin), checkout_ts |-> Null,
   presence_minutes |-> Null, selfie_url |-> url]

\* UNIQUE(session_id, student_id): true when the rows may all be added.
UniqueKeyFree(att, rows) ==
  /\ \A i \in DOMAIN rows :
       RowsOf(att, rows[i].session_id, rows[i].student_id) = {}
  /\ \A i, j \in DOMAIN rows :
       (rows[i].session_id = rows[j].session_id
        /\ rows[i].student_id = rows[j].student_id) => i = j

\* The insert as it would run on a table without the unique key.
InsertAttendance_NoUniqueKey(att, rows) ==
  [ok |-> TRUE, table |-> att \o rows]

\* db('attendance').insert(rows): one statement, refused as a whole on a
\* duplicate key.
InsertAttendance(att, rows) ==
  IF UniqueKeyFree(att, rows)
  THEN [ok |-> TRUE, table |-> att \o rows]
  ELSE [ok |-> FALSE, table |-> att]

\* The upsert as it would run without its onConflict(...).merge() clause.
UpsertAttendance_InsertOnly(att, row) ==
  InsertAttendance(att, <<row>>)

\* db('attendance').insert(row).onConflict([session_id, student_id]).merge():
\* INSERT ... ON DUPLICATE KEY UPDATE of every inserted column.
UpsertAttendance(att, row) ==
  IF RowsOf(att, row.session_id, row.student_id) = {}
  THEN [ok |-> TRUE, table |-> Append(att, row)]
  ELSE [ok |-> TRUE,
        table |-> [i \in DOMAIN att |->
                     IF i \in RowsOf(att, row.session_id, row.student_id)
                     THEN [att[i] EXCEPT !.status = row.status,
                                         !.checkin_ts = row.checkin_ts,
                                         !.selfie_url = row.selfie_url]
                     ELSE att[i]]]

\* The check-out as it would run if it created the record it does not find.
UpdateCheckout_CreatesRow(att, sid, stu, ts) ==
  IF RowsOf(att, sid, stu) = {}
  THEN Append(att, [AttendanceRow(sid, stu, "present", ts, Null)
                      EXCEPT !.checkout_ts = Some(ts)])
  ELSE [i \in DOMAIN att |->
          IF i \in RowsOf(att, sid, stu)
          THEN [att[i] EXCEPT !.checkout_ts = Some(ts)]
          ELSE att[i]]

\* db('attendance').where({session_id, student_id}).update({checkout_ts})
UpdateCheckout(att, sid, stu, ts) ==
  [i \in DOMAIN att |->
     IF i \in RowsOf(att, sid, stu)
     THEN [att[i] EXCEPT !.checkout_ts = Some(ts)]
     ELSE att[i]]

\* db('presence_events').insert(...): event_ts defaults to CURRENT_TIMESTAMP.
InsertEvent(evs, sid, stu, etype, source, ts) ==
  Append(evs, [session_id |-> sid, student_id |-> stu, event_type |-> etype,
               event_ts |-> ts, source |-> source])

\* ------------------------------------------------------------- resolver
\* The comparison as it would run on whole minutes (a truncated quotient).
isStudentLate_Truncated(sessionStart, t) ==
  ((t - sessionStart) \div MsPerMinute) > lateThresholdMinutes

\* diffMinutes = (now - sessionStart) / (1000 * 60) is a fraction: its whole
\* part and its remainder decide diffMinutes > lateThresholdMinutes.
isStudentLate(sessionStart, t) ==
  LET diff == t - sessionStart
      whole == diff \div MsPerMinute
      rest == diff % MsPerMinute
  IN \/ whole > lateThresholdMinutes
     \/ (whole = lateThresholdMinutes /\ rest > 0)

ResolveStatus(sessionStart, t) ==
  IF isStudentLate(sessionStart, t) THEN "late" ELSE "present"

\* ------------------------------------------------------ POST /presence
\* Request bodies: 0 and "" stand for a missing (falsy) field.
RecordSessionIds == 0..(Len(sessions) + 1)
RecordStudents == Students \cup {""}
RecordEventTypes == {"in", "out", "seen", ""}
RecordImages == {Null, Some("cam.jpg")}

\* The field check as it would run without its test of event_type.
MissingFields_EventTypeOptional(sid, stu, etype) == sid = 0 \/ stu = ""

\* !session_id || !student_id || !event_type
MissingFields(sid, stu, etype) == sid = 0 \/ stu = "" \/ etype = ""

\* Field check, then the lookup of the open session.
RecordSessionLookup(sid, stu, etype, img) ==
  /\ FreeSlot
  /\ nreq' = nreq + 1
  /\ IF MissingFields(sid, stu, etype)
     THEN /\ response' = Reject("record", 400, "Missing required fields")
          /\ UNCHANGED procs
     ELSE IF ~(sid \in DOMAIN sessions /\ sessions[sid].status = "open")
     THEN /\ response' = Reject("record", 400,
                             "Session not found or not active")
          /\ UNCHANGED procs
     ELSE /\ procs' = Spawn([Handler EXCEPT !.pc = "pe_insert", !.sid = sid,
                                      !.stu = stu, !.etype = etype,
                                      !.url = img,
                                      !.start_ts = sessions[sid].start_ts[1]])
          /\ response' = NoResponse
  /\ UNCHANGED obsVars
  /\ UNCHANGED <<sessions, attendance, presence_events, published, now>>

\* The event row is inserted; for 'in' the status and check-in time of the
\* attendance row are computed, for 'out' the check-out time.
RecordInsertEvent(h) ==
  /\ h.pc = "pe_insert"
  /\ presence_events' = InsertEvent(presence_events, h.sid, h.stu,
                                    h.etype, "cctv", now)
  /\ IF h.etype = "in"
     THEN /\ procs' = Move(h, [h EXCEPT !.pc = "pe_upsert",
                         !.eid = Some(Len(presence_events')),
                         !.status = ResolveStatus(h.start_ts, now),
                         !.ts = now])
          /\ response' = NoResponse
          /\ UNCHANGED published
     ELSE IF h.etype = "out"
     THEN /\ procs' = Move(h, [h EXCEPT !.pc = "pe_checkout",
                         !.eid = Some(Len(presence_events')),
                         !.ts = now])
          /\ response' = NoResponse
          /\ UNCHANGED published
     ELSE /\ published' = broadcastPresenceEvent(published, h.sid,
                            h.stu, h.etype,
                            Some(Len(presence_events')))
          /\ response' = Respond("record", 201)
          /\ procs' = Finish(h)
  /\ UNCHANGED obsVars
  /\ UNCHANGED <<sessions, attendance, now, nreq>>

RecordUpsert(h) ==
  /\ h.pc = "pe_upsert"
  /\ LET r == UpsertAttendance(attendance,
                AttendanceRow(h.sid, h.stu, h.status,
                              h.ts, h.url))
     IN /\ attendance' = r.table
        /\ IF r.ok
           THEN /\ published' = broadcastPresenceEvent(published, h.sid,
                                  h.stu, h.etype, h.eid)
                /\ response' = Respond("record", 201)
           ELSE /\ response' = Respond("record", 500)
                /\ UNCHANGED published
  /\ procs' = Finish(h)
  /\ UNCHANGED obsVars
  /\ UNCHANGED <<sessions, presence_events, now, nreq>>

RecordCheckout(h) ==
  /\ h.pc = "pe_checkout"
  /\ attendance' = UpdateCheckout(attendance, h.sid, h.stu,
                                  h.ts)
  /\ published' = broadcastPresenceEvent(published, h.sid, h.stu,
                                         h.etype, h.eid)
  /\ response' = Respond("record", 201)
  /\ procs' = Finish(h)
  /\ UNCHANGED obsVars
  /\ UNCHANGED <<sessions, presence_events, now, nreq>>

\* ------------------------------------------- POST /attendance/checkin
\* Request bodies: "" stands for image_data that fails the Joi schema.
\* The callers are students (a professor's id is no students row).
CheckinSessionIds == 1..(Len(sessions) + 1)
CheckinTokens == {"none", "bad"} \cup Students
CheckinImages == {"", "aGk="}
MatchOutcomes == {"uploadError", "matchError", "nomatch", "match"}

\* attendanceSchemas.checkin: 0 lets the request through.
validateCheckin(image_data) ==
  IF image_data = "" THEN 400 ELSE 0

\* Middleware, then the lookup of the open session.
CheckinSessionLookup(sid, tok, image_data) ==
  /\ FreeSlot
  /\ nreq' = nreq + 1
  /\ IF authenticateToken(tok) # 0
     THEN /\ response' = Reject("checkin", authenticateToken(tok),
                             authenticateError(tok))
          /\ UNCHANGED procs
     ELSE IF validateCheckin(image_data) # 0
     THEN /\ response' = Respond("checkin", validateCheckin(image_data))
          /\ UNCHANGED procs
     ELSE IF ~(sid \in DOMAIN sessions /\ sessions[sid].status = "open")
     THEN /\ response' = Reject("checkin", 400,
                             "Session not found or not active")
          /\ UNCHANGED procs
     ELSE /\ procs' = Spawn([Handler EXCEPT !.pc = "ci_match", !.uid = tok,
                                      !.sid = sid,
                                      !.stu = tok, !.etype = "in",
                                      !.start_ts = sessions[sid].start_ts[1]])
          /\ response' = NoResponse
  /\ UNCHANGED obsVars
  /\ UNCHANGED <<sessions, attendance, presence_events, published, now>>

\* The two collaborator calls, which touch none of the tables: putObject
\* (a failure leaves through the outer catch) and axios.post(.../match)
\* (a failure is caught by the inner catch).  "match" is
\* matched && student_id === req.user.id.
CheckinMatch(h, outcome) ==
  /\ h.pc = "ci_match"
  /\ IF outcome = "match"
     THEN /\ procs' = Move(h, [h EXCEPT !.pc = "ci_upsert",
                         !.url = Some("selfie.jpg"),
                         !.status = ResolveStatus(h.start_ts, now),
                         !.ts = now])
          /\ response' = NoResponse
     ELSE /\ response' = Respond("checkin",
                           IF outcome = "nomatch" THEN 400 ELSE 500)
          /\ procs' = Finish(h)
  /\ UNCHANGED obsVars
  /\ UNCHANGED <<sessions, attendance, presence_events, published, now, nreq>>

\* The attendance upsert; an error is caught by the inner catch.
CheckinUpsert(h) ==
  /\ h.pc = "ci_upsert"
  /\ LET r == UpsertAttendance(attendance,
                AttendanceRow(h.sid, h.stu, h.status,
                              h.ts, h.url))
     IN /\ attendance' = r.table
        /\ IF r.ok
           THEN /\ procs' = Move(h, [h EXCEPT !.pc = "ci_event"])
                /\ response' = NoResponse
           ELSE /\ response' = Respond("checkin", 500)
                /\ procs' = Finish(h)
  /\ UNCHANGED obsVars
  /\ UNCHANGED <<sessions, presence_events, published, now, nreq>>

\* The presence event of the check-in, then the broadcast and the answer.
CheckinInsertEvent(h) ==
  /\ h.pc = "ci_event"
  /\ presence_events' = InsertEvent(presence_events, h.sid, h.stu,
                                    "in", "face", now)
  /\ published' = broadcastPresenceEvent(published, h.sid, h.stu,
                                         "in", Null)
  /\ response' = Respond("checkin", 200)
  /\ procs' = Finish(h)
  /\ UNCHANGED obsVars
  /\ UNCHANGED <<sessions, attendance, now, nreq>>

\* ------------------ POST /classes/sessions/:session_id/force-absent
ForceAbsentSessionIds == 1..(Len(sessions) + 1)

RECURSIVE SetToSeq(_)
SetToSeq(S) ==
  IF S = {} THEN <<>>
  ELSE LET x == CHOOSE y \in S : TRUE
       IN <<x>> \o SetToSeq(S \ {x})

\* Middleware, then the session joined to the caller's classes, then the
\* students enrolled in its class (class_students is not written by any
\* route, so the two reads are taken together).
ForceAbsentSessionLookup(sid, tok) ==
  /\ FreeSlot
  /\ nreq' = nreq + 1
  /\ IF ProfessorGate(tok) # 0
     THEN /\ response' = Reject("forceAbsent", ProfessorGate(tok),
                             ProfessorGateError(tok))
          /\ UNCHANGED procs
     ELSE IF ~(sid \in DOMAIN sessions
               /\ ClassProfessor(sessions[sid].class_id) = tok)
     THEN /\ response' = Reject("forceAbsent", 404, "Session not found")
          /\ UNCHANGED procs
     ELSE /\ procs' = Spawn([Handler EXCEPT !.pc = "fa_present", !.uid = tok,
                                      !.sid = sid,
                                      !.cid = sessions[sid].class_id,
                                      !.absent =
                                         Enrolled(sessions[sid].class_id)])
          /\ response' = NoResponse
  /\ UNCHANGED obsVars
  /\ UNCHANGED <<sessions, attendance, presence_events, published, now>>

\* Students of the session whose attendance status is present or late.
PresentStudentIds(att, sid) ==
  {att[i].student_id : i \in {j \in DOMAIN att :
      att[j].session_id = sid /\ att[j].status \in {"present", "late"}}}

\* enrolledStudents.filter(s => !presentStudentIds.includes(s.student_id))
AbsentStudents(enrolled, att, sid) == enrolled \ PresentStudentIds(att, sid)

ForceAbsentPresent(h) ==
  /\ h.pc = "fa_present"
  /\ LET absentStudents == AbsentStudents(h.absent, attendance, h.sid)
     IN IF absentStudents # {}
        THEN /\ procs' = Move(h, [h EXCEPT !.pc = "fa_insert",
                                       !.absent = absentStudents,
                                       !.ts = now])
             /\ response' = NoResponse
        ELSE /\ response' = Respond("forceAbsent", 200)
             /\ procs' = Finish(h)
  /\ UNCHANGED obsVars
  /\ UNCHANGED <<sessions, attendance, presence_events, published, now, nreq>>

\* absentStudents.map(student => ({..., status: 'absent', checkin_ts: new Date()}))
AbsentRecords(sid, students, ts) ==
  LET order == SetToSeq(students)
  IN [i \in DOMAIN order |-> AttendanceRow(sid, order[i], "absent", ts, Null)]

ForceAbsentInsert(h) ==
  /\ h.pc = "fa_insert"
  /\ LET r == InsertAttendance(attendance,
                AbsentRecords(h.sid, h.absent, h.ts))
     IN /\ attendance' = r.table
        /\ response' = Respond("forceAbsent", IF r.ok THEN 200 ELSE 500)
  /\ procs' = Finish(h)
  /\ UNCHANGED obsVars
  /\ UNCHANGED <<sessions, presence_events, published, now, nreq>>

Next ==
  \/ Tick
  \/ \E c \in Classes, tok \in Tokens : StartActiveLookup(c, tok)
  \/ \E h \in InFlight : StartInsert(h)
  \/ \E c \in Classes, tok \in Tokens : StopActiveLookup(c, tok)
  \/ \E h \in InFlight : StopUpdate(h)
  \/ \E sid \in RecordSessionIds, stu \in RecordStudents,
        etype \in RecordEventTypes :
       \E img \in (IF etype = "in" THEN RecordImages ELSE {Null}) :
         RecordSessionLookup(sid, stu, etype, img)
  \/ \E h \in InFlight : RecordInsertEvent(h)
  \/ \E h \in InFlight : RecordUpsert(h)
  \/ \E h \in InFlight : RecordCheckout(h)
  \/ \E sid \in CheckinSessionIds, tok \in CheckinTokens,
        image_data \in CheckinImages :
       CheckinSessionLookup(sid, tok, image_data)
  \/ \E h \in InFlight, outcome \in MatchOutcomes : CheckinMatch(h, outcome)
  \/ \E h \in InFlight : CheckinUpsert(h)
  \/ \E h \in InFlight : CheckinInsertEvent(h)
  \/ \E sid \in ForceAbsentSessionIds, tok \in Tokens :
       ForceAbsentSessionLookup(sid, tok)
  \/ \E h \in InFlight : ForceAbsentPresent(h)
  \/ \E h \in InFlight : ForceAbsentInsert(h)

Spec == Init /\ [][Next]_vars

\* The same routes with one request served at a time: a request is taken
\* only after the one before it has been answered.
SeqNext == Next /\ BagCardinality(procs') <= 1

SeqSpec == Init /\ [][SeqNext]_vars

\* ------------------------------------------------------ storage failures
\* The route a waiting handler belongs to.
RouteOf(h) ==
  CASE h.pc \in {"st_insert"} -> "start"
    [] h.pc \in {"sp_update"} -> "stop"
    [] h.pc \in {"pe_insert", "pe_upsert", "pe_checkout"} -> "record"
    [] h.pc \in {"ci_match", "ci_upsert", "ci_event"} -> "checkin"
    [] OTHER -> "forceAbsent"

\* The database query a handler awaits is rejected (connection lost, lock
\* timeout): the statement changes no table, the handler leaves through its
\* catch (next(error), or the inner catch of the check-in) and answers 500.
\* No route opens a transaction, so what the handler wrote before stays.
StorageFault(h) ==
  /\ h.pc # "ci_match"
  /\ response' = IF RouteOf(h) = "checkin"
                 THEN Reject("checkin", 500,
                             "Face recognition service unavailable")
                 ELSE Respond(RouteOf(h), 500)
  /\ procs' = Finish(h)
  /\ UNCHANGED obsVars
  /\ UNCHANGED <<sessions, attendance, presence_events, published, now, nreq>>

FaultNext ==
  \/ Next
  \/ \E h \in InFlight : StorageFault(h)

FaultSpec == Init /\ [][FaultNext]_vars

\* ------------------------------------------------------ publish failures
\* The last step of a record request in which the broadcast call throws
\* (io.to(...).emit or the logger raises): the write of the step is done,
\* nothing is emitted, and the handler leaves through catch (next(error))
\* before it reaches res.status(201).
PublishFault(h) ==
  /\ \/ h.pc \in {"pe_upsert", "pe_checkout"}
     \/ (h.pc = "pe_insert" /\ h.etype \notin {"in", "out"})
  /\ attendance' =
       CASE h.pc = "pe_upsert" ->
              UpsertAttendance(attendance,
                AttendanceRow(h.sid, h.stu, h.status, h.ts, h.url)).table
         [] h.pc = "pe_checkout" ->
              UpdateCheckout(attendance, h.sid, h.stu, h.ts)
         [] OTHER -> attendance
  /\ presence_events' =
       IF h.pc = "pe_insert"
       THEN InsertEvent(presence_events, h.sid, h.stu, h.etype, "cctv", now)
       ELSE presence_events
  /\ response' = Respond("record", 500)
  /\ procs' = Finish(h)
  /\ UNCHANGED obsVars
  /\ UNCHANGED <<sessions, published, now, nreq>>

PublishFaultNext ==
  \/ Next
  \/ \E h \in InFlight : PublishFault(h)

PublishFaultSpec == Init /\ [][PublishFaultNext]_vars

\* ---------------------------------------------- realtime channel observers
\* socket.on('join-attendance', sessionId => socket.join(...))
JoinAttendance(rs, sid) == rs \cup {Room(sid)}

\* socket.on('leave-attendance', sessionId => socket.leave(...))
LeaveAttendance(rs, sid) == rs \ {Room(sid)}

PageSessionIds == DOMAIN sessions

\* The live-session page mounts: socketService.connect(token), then
\* setupSocketListeners() calls joinAttendanceRoom(sessionId) at once.
\* connect() keeps a connected socket and otherwise creates one, which is
\* not connected yet; joinAttendanceRoom emits only if the socket is
\* connected.
OpenPage(o, sid) ==
  /\ page[o] = 0
  /\ page' = [page EXCEPT ![o] = sid]
  /\ IF socket[o] = "connected"
     THEN /\ rooms' = [rooms EXCEPT ![o] = JoinAttendance(@, sid)]
          /\ subscribed' = [subscribed EXCEPT ![o] = @ \cup {sid}]
          /\ UNCHANGED socket
     ELSE /\ socket' = [socket EXCEPT ![o] = "connecting"]
          /\ UNCHANGED <<rooms, subscribed>>
  /\ response' = NoResponse
  /\ UNCHANGED <<sessions, attendance, presence_events, published, procs,
                 now, nreq>>

\* The page unmounts: leaveAttendanceRoom(sessionId), which emits only if
\* the socket is connected; the socket itself is kept.
ClosePage(o) ==
  /\ page[o] # 0
  /\ page' = [page EXCEPT ![o] = 0]
  /\ IF socket[o] = "connected"
     THEN /\ rooms' = [rooms EXCEPT ![o] = LeaveAttendance(@, page[o])]
          /\ subscribed' = [subscribed EXCEPT ![o] = @ \ {page[o]}]
     ELSE UNCHANGED <<rooms, subscribed>>
  /\ response' = NoResponse
  /\ UNCHANGED <<sessions, attendance, presence_events, published, procs,
                 now, nreq, socket>>

\* The connection is established (also after a loss: socket.io-client
\* reconnects by itself): io.on('connection') gets a socket that is in no
\* attendance room; the client's 'connect' listener only logs.
Connected(o) ==
  /\ socket[o] = "connecting"
  /\ socket' = [socket EXCEPT ![o] = "connected"]
  /\ rooms' = [rooms EXCEPT ![o] = {}]
  /\ subscribed' = [subscribed EXCEPT ![o] = {}]
  /\ response' = NoResponse
  /\ UNCHANGED <<sessions, attendance, presence_events, published, procs,
                 now, nreq, page>>

\* The connection is lost: the server drops the socket from its rooms.
Disconnected(o) ==
  /\ socket[o] = "connected"
  /\ socket' = [socket EXCEPT ![o] = "connecting"]
  /\ rooms' = [rooms EXCEPT ![o] = {}]
  /\ subscribed' = [subscribed EXCEPT ![o] = {}]
  /\ response' = NoResponse
  /\ UNCHANGED <<sessions, attendance, presence_events, published, procs,
                 now, nreq, page>>

\* The routes that publish in a room: start, stop, record and check-in.
PublishingNext ==
  \/ \E c \in Classes, tok \in Tokens : StartActiveLookup(c, tok)
  \/ \E h \in InFlight : StartInsert(h)
  \/ \E c \in Classes, tok \in Tokens : StopActiveLookup(c, tok)
  \/ \E h \in InFlight : StopUpdate(h)
  \/ \E sid \in RecordSessionIds, stu \in RecordStudents,
        etype \in RecordEventTypes :
       \E img \in (IF etype = "in" THEN RecordImages ELSE {Null}) :
         RecordSessionLookup(sid, stu, etype, img)
  \/ \E h \in InFlight : RecordInsertEvent(h)
  \/ \E h \in InFlight : RecordUpsert(h)
  \/ \E h \in InFlight : RecordCheckout(h)
  \/ \E sid \in CheckinSessionIds, tok \in CheckinTokens,
        image_data \in CheckinImages :
       CheckinSessionLookup(sid, tok, image_data)
  \/ \E h \in InFlight, outcome \in MatchOutcomes : CheckinMatch(h, outcome)
  \/ \E h \in InFlight : CheckinUpsert(h)
  \/ \E h \in InFlight : CheckinInsertEvent(h)

\* The publishing routes, served one at a time, next to the observers' steps.
ChannelNext ==
  \/ PublishingNext /\ BagCardinality(procs') <= 1
  \/ \E o \in Observers, sid \in PageSessionIds : OpenPage(o, sid)
  \/ \E o \in Observers : ClosePage(o)
  \/ \E o \in Observers : Connected(o)
  \/ \E o \in Observers : Disconnected(o)

ChannelSpec == Init /\ [][ChannelNext]_vars

\* ================================================================ claims
\* The handler h takes the step (its copy leaves the bag of waiting handlers).
StepOf(h) == CopiesIn(h, procs') < CopiesIn(h, procs)

SessionIds == DOMAIN sessions

EventsOf(evs, sid) == {i \in DOMAIN evs : evs[i].session_id = sid}

EnterEvents(sid, stu) ==
  {i \in DOMAIN presence_events :
     /\ presence_events[i].session_id = sid
     /\ presence_events[i].student_id = stu
     /\ presence_events[i].event_type = "in"}

\* A presence-route ENTER of the pair has logged its event and still owes
\* its attendance upsert.
EnterPending(sid, stu) ==
  \E h \in InFlight : h.pc = "pe_upsert" /\ h.sid = sid /\ h.stu = stu

HasRecord(att, sid, stu) == RowsOf(att, sid, stu) # {}

\* C1: in every reachable state each class has at most one session with
\* status open.
C1_AtMostOneOpenPerClass ==
  \A c \in Classes : Cardinality(OpenSessions(sessions, c)) <= 1

\* C2: of two start calls for a class with no stop between them exactly one
\* creates a session: a start answers 201 (and inserts its session) only when
\* no session of the class was open, otherwise it answers Conflict.
C2_SecondStartConflicts ==
  [][(response'.op = "start" /\ response'.code = 201)
       => OpenSessions(sessions, sessions'[Len(sessions')].class_id) = {}]_vars

\* C3: every (session, participant) pair with an accepted ENTER whose handler
\* is through has exactly one attendance row, no pair ever has two, and the
\* attendance upsert of an ENTER (either route) never answers with an error.
C3_RowsUnique ==
  \A sid \in SessionIds, stu \in Students :
    /\ Cardinality(RowsOf(attendance, sid, stu)) <= 1
    /\ (EnterEvents(sid, stu) # {} /\ ~EnterPending(sid, stu))
         => Cardinality(RowsOf(attendance, sid, stu)) = 1

C3_UpsertAnswersNoError ==
  \A h \in InFlight :
    (StepOf(h) /\ h.pc \in {"pe_upsert", "ci_upsert"}) => response'.code # 500

C3_OneRowPerEnteredPair ==
  /\ []C3_RowsUnique
  /\ [][C3_UpsertAnswersNoError]_vars

\* C3 witness: a pair with an ENTER from the camera route and an ENTER from
\* the check-in route, both through, and one attendance row.
C3_Witness ==
  \E sid \in SessionIds, stu \in Students :
    /\ procs = EmptyBag
    /\ \E i, j \in EnterEvents(sid, stu) :
         presence_events[i].source = "cctv" /\ presence_events[j].source = "face"
    /\ Cardinality(RowsOf(attendance, sid, stu)) = 1

\* C4: the stored first-entry timestamp of a pair is the earliest entry
\* timestamp of its accepted ENTERs: once the ENTER handlers of the pair are
\* through, it is not later than the timestamp of any ENTER of the pair.
C4_EarliestEntryKept ==
  \A sid \in SessionIds, stu \in Students :
    ~EnterPending(sid, stu) =>
      \A r \in RowsOf(attendance, sid, stu), e \in EnterEvents(sid, stu) :
        attendance[r].status \in {"present", "late"}
          => attendance[r].checkin_ts[1] <= presence_events[e].event_ts

\* C5: no step changes the status of a record that is present or late
\* (present is never downgraded to late, late is terminal).
C5_StatusNeverDowngraded ==
  [][\A r \in DOMAIN attendance :
       attendance[r].status \in {"present", "late"}
         => attendance'[r].status = attendance[r].status]_vars

\* C6: once a session is closed, no presence event is appended for it and no
\* present/late attendance record of it is created or changed.
C6_ClosedSessionFrozen ==
  [][\A sid \in SessionIds :
       sessions[sid].status = "closed" =>
         /\ EventsOf(presence_events', sid) = EventsOf(presence_events, sid)
         /\ \A r \in DOMAIN attendance' :
              (attendance'[r].session_id = sid
               /\ attendance'[r].status # "absent")
                => (r \in DOMAIN attendance /\ attendance'[r] = attendance[r])]_vars

\* C7: with requests served one after another, a force-absent run (a re-run
\* included) never answers with an error.
C7_RerunAnswersNoError ==
  ~(response.op = "forceAbsent" /\ response.code = 500)

\* C8: a successful force-absent run gives a new absent record to exactly the
\* enrolled students of the session's class that had no attendance record,
\* leaves every record that existed unchanged, and leaves every enrolled
\* student with exactly one record of the session.
C8_Reconciled(h) ==
  LET old == Len(attendance)
      added == {r \in DOMAIN attendance' : r > old}
      enrolled == Enrolled(sessions[h.sid].class_id)
  IN /\ \A r \in DOMAIN attendance : attendance'[r] = attendance[r]
     /\ \A r \in added : /\ attendance'[r].session_id = h.sid
                         /\ attendance'[r].status = "absent"
     /\ {attendance'[r].student_id : r \in added}
          = {s \in enrolled : ~HasRecord(attendance, h.sid, s)}
     /\ Cardinality(added)
          = Cardinality({s \in enrolled : ~HasRecord(attendance, h.sid, s)})
     /\ \A s \in enrolled : Cardinality(RowsOf(attendance', h.sid, s)) = 1

C8_AbsentSetIsEnrolledMinusRecorded ==
  [][\A h \in InFlight :
       (/\ StepOf(h)
        /\ h.pc \in {"fa_present", "fa_insert"}
        /\ response'.op = "forceAbsent"
        /\ response'.code = 200) => C8_Reconciled(h)]_vars

\* C8 witness: a force-absent run has just answered 200 for a session in
\* which one enrolled student was present and another was given absent.
C8_Witness ==
  /\ response = Respond("forceAbsent", 200)
  /\ \E sid \in SessionIds :
       \E r1, r2 \in DOMAIN attendance :
         /\ attendance[r1].session_id = sid
         /\ attendance[r2].session_id = sid
         /\ attendance[r1].status \in {"present", "late"}
         /\ attendance[r2].status = "absent"
         /\ r1 < r2

\* C9: after a successful stop, with no handler left in flight (nothing more
\* will run without a new request), every student enrolled in the class has
\* an attendance record of the closed session.
C9_StopReconciles ==
  \A sid \in SessionIds :
    (sessions[sid].status = "closed" /\ procs = EmptyBag)
      => \A s \in Enrolled(sessions[sid].class_id) : HasRecord(attendance, sid, s)

\* C10: the status resolved for an ENTER is late if and only if the entry is
\* more than the late threshold after the session start, present otherwise
\* (present at exactly the threshold).
C10_Resolved(sid, status, ts) ==
  (status = "late")
    <=> (ts - sessions[sid].start_ts[1] > lateThresholdMinutes * MsPerMinute)

SoleEnter(sid, stu) == CHOOSE e \in EnterEvents(sid, stu) : TRUE

\* C11: the resolver is pure in (event timestamp, session start, policy):
\* two students of one session whose only ENTER events carry the same
\* timestamp have the same resolved status, whenever each was resolved.
C11_SameInputsSameStatus ==
  \A sid \in SessionIds, s1 \in Students, s2 \in Students :
    (/\ procs = EmptyBag
     /\ Cardinality(EnterEvents(sid, s1)) = 1
     /\ Cardinality(EnterEvents(sid, s2)) = 1
     /\ presence_events[SoleEnter(sid, s1)].event_ts
          = presence_events[SoleEnter(sid, s2)].event_ts)
      => \A r1 \in RowsOf(attendance, sid, s1),
            r2 \in RowsOf(attendance, sid, s2) :
           (/\ attendance[r1].status \in {"present", "late"}
            /\ attendance[r2].status \in {"present", "late"})
             => attendance[r1].status = attendance[r2].status

ExitEvents(sid, stu) ==
  {i \in DOMAIN presence_events :
     /\ presence_events[i].session_id = sid
     /\ presence_events[i].student_id = stu
     /\ presence_events[i].event_type = "out"}

\* A presence-route EXIT of the pair has logged its event and still owes its
\* check-out update.
ExitPending(sid, stu) ==
  \E h \in InFlight : h.pc = "pe_checkout" /\ h.sid = sid /\ h.stu = stu

\* C12: a record with an exit timestamp holds the latest exit seen for its
\* pair (once the EXIT handlers of the pair are through) and its accumulated
\* duration is exit timestamp minus first-entry timestamp, in minutes.
C12_ExitLatestAndDuration ==
  \A r \in DOMAIN attendance :
    attendance[r].checkout_ts # Null =>
      /\ attendance[r].presence_minutes
           = Some((attendance[r].checkout_ts[1] - attendance[r].checkin_ts[1])
                    \div MsPerMinute)
      /\ ~ExitPending(attendance[r].session_id, attendance[r].student_id)
           => \A e \in ExitEvents(attendance[r].session_id,
                                  attendance[r].student_id) :
                presence_events[e].event_ts <= attendance[r].checkout_ts[1]

\* C13: every attendance record with status absent has a null entry
\* timestamp, a null exit timestamp and no duration.
C13_AbsentHasNullTimestamps ==
  \A r \in DOMAIN attendance :
    attendance[r].status = "absent" =>
      /\ attendance[r].checkin_ts = Null
      /\ attendance[r].checkout_ts = Null
      /\ attendance[r].presence_minutes = Null

\* C14: an EXIT for a pair that has no attendance record appends one presence
\* event and leaves the attendance table unchanged: its insert step adds the
\* one event, its check-out step adds nothing and answers 201.
C14_ExitWithoutRecord ==
  [][\A h \in InFlight :
       (/\ StepOf(h)
        /\ h.pc \in {"pe_insert", "pe_checkout"}
        /\ h.etype = "out"
        /\ RowsOf(attendance, h.sid, h.stu) = {})
         => /\ attendance' = attendance
            /\ h.pc = "pe_insert"
                 => /\ Len(presence_events') = Len(presence_events) + 1
                    /\ SubSeq(presence_events', 1, Len(presence_events))
                         = presence_events
                    /\ presence_events'[Len(presence_events')].session_id
                         = h.sid
                    /\ presence_events'[Len(presence_events')].student_id
                         = h.stu
                    /\ presence_events'[Len(presence_events')].event_type
                         = "out"
            /\ h.pc = "pe_checkout"
                 => /\ presence_events' = presence_events
                    /\ response' = Respond("record", 201)]_vars

\* C14 witness: an EXIT has just been answered 201 for a pair that has an
\* EXIT event in the log and no attendance record.
C14_Witness ==
  /\ procs = EmptyBag
  /\ response = Respond("record", 201)
  /\ \E sid \in SessionIds, stu \in Students :
       /\ ExitEvents(sid, stu) # {}
       /\ EnterEvents(sid, stu) = {}
       /\ RowsOf(attendance, sid, stu) = {}
       /\ presence_events[Len(presence_events)].event_type = "out"
       /\ presence_events[Len(presence_events)].student_id = stu

\* C15: an ENTER that carries no evidence leaves the evidence reference of an
\* existing attendance record unchanged.
C15_EvidenceKept ==
  [][\A h \in InFlight :
       (/\ StepOf(h)
        /\ h.pc \in {"pe_upsert", "ci_upsert"}
        /\ h.url = Null)
         => \A r \in RowsOf(attendance, h.sid, h.stu) :
              attendance'[r].selfie_url = attendance[r].selfie_url]_vars

\* C16: a successful stop sets the end timestamp of its session, sets its
\* status to closed, publishes one "stopped" session-status message in the
\* room of that session, and modifies no other session.
C16_StopClosesItsSession ==
  [][\A h \in InFlight :
       (StepOf(h) /\ h.pc = "sp_update" /\ response'.code = 200)
         => /\ DOMAIN sessions' = DOMAIN sessions
            /\ sessions'[h.sid].status = "closed"
            /\ sessions'[h.sid].end_ts # Null
            /\ sessions'[h.sid].class_id = h.cid
            /\ \A i \in DOMAIN sessions :
                 i # h.sid => sessions'[i] = sessions[i]
            /\ Len(published') = Len(published) + 1
            /\ SubSeq(published', 1, Len(published)) = published
            /\ published'[Len(published')].room = h.sid
            /\ published'[Len(published')].event = "session-status"
            /\ published'[Len(published')].status = "stopped"]_vars

\* C16 witness: a stop has just answered 200, its session is closed with the
\* "stopped" message last in its room, and another session is still open.
C16_Witness ==
  /\ response = Respond("stop", 200)
  /\ \E i, j \in SessionIds :
       /\ i # j
       /\ sessions[i].status = "closed"
       /\ sessions[i].end_ts # Null
       /\ sessions[j].status = "open"
       /\ published[Len(published)].room = i
       /\ published[Len(published)].status = "stopped"

\* C17: a stop that finds no open session answers 400 "No active session
\* found" and changes no session, attendance record, event or room; a stop
\* goes on to its update only for a session that is open (one class).
C17_StopWithoutOpenSession ==
  [][/\ (response'.op = "stop" /\ response'.code # 200)
          => /\ procs' = procs
             /\ UNCHANGED <<sessions, attendance, presence_events, published>>
     /\ (response' = Reject("stop", 400, "No active session found"))
          => \A i \in DOMAIN sessions : sessions[i].status # "open"
     /\ \A h \in BagToSet(procs') :
          (h.pc = "sp_update" /\ CopiesIn(h, procs') > CopiesIn(h, procs))
            => /\ h.sid \in DOMAIN sessions
               /\ sessions[h.sid].status = "open"
               /\ sessions[h.sid].class_id = h.cid]_vars

\* C17 witness: a stop has just been refused for a class whose only session
\* is already closed.
C17_Witness ==
  /\ response = Reject("stop", 400, "No active session found")
  /\ sessions # <<>>
  /\ \A i \in DOMAIN sessions : sessions[i].status = "closed"

\* C18: closed is terminal: no step makes a closed session open again or
\* removes it.
C18_ClosedIsTerminal ==
  [][\A i \in DOMAIN sessions :
       sessions[i].status = "closed"
         => /\ i \in DOMAIN sessions'
            /\ sessions'[i].status = "closed"
            /\ sessions'[i].class_id = sessions[i].class_id]_vars

\* C18 witness: a class has a closed session and a later session that is
\* open (a start after the stop created a different session).
C18_Witness ==
  \E i, j \in SessionIds :
    /\ i < j
    /\ sessions[i].class_id = sessions[j].class_id
    /\ sessions[i].status = "closed"
    /\ sessions[j].status = "open"
    /\ sessions[i].end_ts # Null
    /\ sessions[i].end_ts[1] <= sessions[j].start_ts[1]
    /\ response = Respond("start", 201)

\* C19: a record request that lacks the session id, the participant id or the
\* event type never gets past the field check (no handler and no logged
\* event lacks one of them), and its 400 "Missing required fields" answer
\* changes no event, attendance record, session or room.
C19_FieldsPresent ==
  /\ \A h \in InFlight :
       h.pc \in {"pe_insert", "pe_upsert", "pe_checkout"}
         => (h.sid # 0 /\ h.stu # "" /\ h.etype # "")
  /\ \A e \in DOMAIN presence_events :
       /\ presence_events[e].session_id # 0
       /\ presence_events[e].student_id # ""
       /\ presence_events[e].event_type # ""

C19_RejectionChangesNothing ==
  (response' = Reject("record", 400, "Missing required fields"))
    => /\ procs' = procs
       /\ UNCHANGED <<sessions, attendance, presence_events, published>>

C19_MissingFieldRejected ==
  /\ []C19_FieldsPresent
  /\ [][C19_RejectionChangesNothing]_vars

\* C19 witness: a record request has just been refused for a missing field
\* while a session is open.
C19_Witness ==
  /\ response = Reject("record", 400, "Missing required fields")
  /\ \E sid \in SessionIds : sessions[sid].status = "open"

\* The handler has completed a write of its request: the record route has
\* inserted its presence event, the check-in route has upserted its record.
HasWritten(h) == h.pc \in {"pe_upsert", "pe_checkout", "ci_event"}

\* C20: recording is all-or-nothing: a record or check-in request that is
\* answered with an error has persisted nothing (and its last step writes
\* nothing); an ENTER that is answered with success has its presence event
\* in the log and its attendance record in the table.
C20_AllOrNothing ==
  [][\A h \in InFlight :
       (/\ StepOf(h)
        /\ RouteOf(h) \in {"record", "checkin"}
        /\ response'.op \in {"record", "checkin"})
         => /\ response'.code >= 400
                 => /\ ~HasWritten(h)
                    /\ attendance' = attendance
                    /\ presence_events' = presence_events
            /\ (response'.code < 400 /\ h.etype = "in")
                 => /\ \E e \in DOMAIN presence_events' :
                         /\ presence_events'[e].session_id = h.sid
                         /\ presence_events'[e].student_id = h.stu
                         /\ presence_events'[e].event_type = "in"
                    /\ RowsOf(attendance', h.sid, h.stu) # {}]_vars

\* The presence-event messages published in the room of a session for a
\* student by the record route (these carry the id of their logged event).
RecordMessages(sid, stu) ==
  {p \in DOMAIN published :
     /\ published[p].room = Room(sid)
     /\ published[p].event = "presence-event"
     /\ published[p].student_id = stu
     /\ published[p].event_id # Null}

\* C22: two events of one session and participant are published in the room
\* of the session in the order in which they were appended to the event log.
C22_PublishedInLogOrder ==
  \A sid \in SessionIds, stu \in Students :
    \A p, q \in RecordMessages(sid, stu) :
      p < q => published[p].event_id[1] < published[q].event_id[1]

\* C25: once no handler is in flight, no student with an ENTER event in a
\* session has an absent record for it, and a force-absent run on a session
\* that has no absent record yet (a first run) is not made to fail by the
\* ENTERs it runs next to.
C25_NoAbsentWithEnter ==
  procs = EmptyBag =>
    \A sid \in SessionIds, stu \in Students :
      EnterEvents(sid, stu) # {} =>
        \A r \in RowsOf(attendance, sid, stu) : attendance[r].status # "absent"

C25_FirstRunSucceeds ==
  \A h \in InFlight :
    (/\ StepOf(h)
     /\ h.pc = "fa_insert"
     /\ \A r \in DOMAIN attendance :
          attendance[r].session_id = h.sid => attendance[r].status # "absent")
      => response' = Respond("forceAbsent", 200)

C25_EnterAndReconcileInterleave ==
  /\ []C25_NoAbsentWithEnter
  /\ [][C25_FirstRunSucceeds]_vars

\* C26: in the room of a session no presence event is published after the
\* "stopped" session-status message.
C26_NoEventAfterStopped ==
  \A p, q \in DOMAIN published :
    (/\ p < q
     /\ published[p].room = published[q].room
     /\ published[p].event = "session-status"
     /\ published[p].status = "stopped")
      => published[q].event # "presence-event"

\* The "stopped" session-status messages published in the room of a session.
StoppedMessages(sid) ==
  {p \in DOMAIN published :
     /\ published[p].room = Room(sid)
     /\ published[p].event = "session-status"
     /\ published[p].status = "stopped"}

\* C27: a session is closed once: at most one "stopped" message is published
\* for it, and its end timestamp, once written, never changes.
C27_OneStoppedMessage ==
  \A sid \in SessionIds : Cardinality(StoppedMessages(sid)) <= 1

C27_EndTimestampWrittenOnce ==
  \A sid \in SessionIds :
    sessions[sid].end_ts # Null => sessions'[sid].end_ts = sessions[sid].end_ts

C27_ClosedExactlyOnce ==
  /\ []C27_OneStoppedMessage
  /\ [][C27_EndTimestampWrittenOnce]_vars

\* C29: every presence event in the log, and every presence event published
\* in a room, has event type 'in' or 'out'.
C29_OnlyEnterAndExit ==
  /\ \A e \in DOMAIN presence_events :
       presence_events[e].event_type \in {"in", "out"}
  /\ \A p \in DOMAIN published :
       published[p].event = "presence-event"
         => published[p].event_type \in {"in", "out"}

\* C24: a request without a token and a request with an invalid or expired
\* token are both answered 401, and neither reaches the route handler (no
\* handler is started, nothing is written or published).
C24_Rejected401 ==
  response.error \in {"Access token required", "Invalid or expired token"}
    => response.code = 401

C24_HandlerNotRun ==
  response'.error \in {"Access token required", "Invalid or expired token"}
    => /\ procs' = procs
       /\ UNCHANGED <<sessions, attendance, presence_events, published>>

C24_UnauthenticatedRejected ==
  /\ []C24_Rejected401
  /\ [][C24_HandlerNotRun]_vars

\* C28: a start, stop or force-absent handler changes sessions or attendance
\* only when its caller is a professor and owns the class concerned.
C28_OnlyOwnerChangesState ==
  [][\A h \in InFlight :
       (/\ StepOf(h)
        /\ RouteOf(h) \in {"start", "stop", "forceAbsent"}
        /\ (sessions' # sessions \/ attendance' # attendance))
         => /\ UserType(h.uid) = "professor"
            /\ ClassProfessor(h.cid) = h.uid]_vars

\* C21: publishing never fails the write path: the step of a record request
\* that completes its attendance write (storage accepts every write here)
\* answers 201, whether or not the message is published.
C21_PublishNeverFailsRecord ==
  [][\A h \in InFlight :
       (StepOf(h) /\ h.pc \in {"pe_upsert", "pe_checkout"})
         => response' = Respond("record", 201)]_vars

\* The session a handler's step publishes for: a start publishes for the
\* session it has just inserted.
SessionOfStep(h) == IF h.pc = "st_insert" THEN Len(sessions') ELSE h.sid

C30_PageObserverIsMember ==
  \A o \in Observers :
    (page[o] # 0 /\ socket[o] = "connected") => Room(page[o]) \in rooms[o]
====
